---- MODULE Spec2Model ----
(***************************************************************************)
(* Model of the Ignis skybox subsystem                                     *)
(* (engine/src/systems/skybox_system.c).                                   *)
(*                                                                         *)
(* The subsystem state is the caller-provided skybox_state block plus the  *)
(* static pointer state_ptr.  Every public entry point is one action; the  *)
(* collaborator calls it makes (resource system, renderer, shader system,  *)
(* geometry system, allocator) are appended, in program order, to the call *)
(* log `calls`, and the ledger of live collaborator resources `gpu` is the *)
(* replay of that log.  The answers of the collaborators are inputs.       *)
(***************************************************************************)
EXTENDS Integers, Sequences, FiniteSets, TLC

\* ------------------------------------------------------------------ bounds
\* Ids are drawn from an id space of IdBits bits whose all-ones value is the
\* sentinel; frame numbers are modelled with the wrap-around arithmetic of
\* u64 at a reduced width (model integers are 32-bit signed).
IdBits == 8
U64Bits == 3
\* Size of the renderer's shader-instance table.
MaxInstances == 2
\* The largest number of faces of one load that differ from the reference
\* image.
MaxOddFaces == 1
\* The largest number of cube geometries, of cubemap textures and of sets
\* of texture-map resources alive at one time.
MaxLive == 2

U64Mod == 2 ^ U64Bits

\* ------------------------------------------------------- program constants
SKYBOX_NAME_MAX_LENGTH == 64
FACE_COUNT == 6
\* defines.h: the all-ones u32 sentinel.
INVALID_ID == 2 ^ IdBits - 1
\* (u64)-1
U64_MAX == (0 - 1) % U64Mod

face_names == <<"right", "left", "top", "bottom", "front", "back">>

Faces == 0 .. (FACE_COUNT - 1)

\* --------------------------------------------------------------- strings
\* A C string is the sequence of its non-NUL bytes; a char buffer is a
\* sequence of bytes of the buffer's size, 0 being NUL.
NameA == <<97>>
NameLong == [i \in 1 .. SKYBOX_NAME_MAX_LENGTH |-> 99]
Names == {NameA, NameLong}

ZeroBuffer(n) == [i \in 1 .. n |-> 0]

\* strncpy semantics: exactly `length` bytes are written, the source bytes
\* followed by NUL padding; no terminator when the source fills the buffer.
string_ncopy(source, length) ==
    [i \in 1 .. length |-> IF i <= Len(source) THEN source[i] ELSE 0]

Terminated(buf) == \E i \in 1 .. Len(buf) : buf[i] = 0

CStr(buf) ==
    LET n == CHOOSE i \in 1 .. Len(buf) :
                 buf[i] = 0 /\ \A j \in 1 .. (i - 1) : buf[j] # 0
    IN  SubSeq(buf, 1, n - 1)

\* ------------------------------------------------------------- call log
Call(fn, a, b) == [fn |-> fn, a |-> a, b |-> b]

B2N(x) == IF x THEN 1 ELSE 0

\* Ledger of the collaborators' live resources.
ZeroGpu == [tex_live |-> 0, map_live |-> 0, inst_live |-> {}, geom_live |-> 0,
            px_live |-> {}, img_live |-> {}]

\* Effect of one collaborator call on the ledger.
Effect(g, c) ==
    CASE c.fn = "renderer_cubemap_create" ->
            IF c.b = 1 THEN [g EXCEPT !.tex_live = @ + 1] ELSE g
      [] c.fn = "renderer_cubemap_destroy" ->
            IF c.a = 1 THEN [g EXCEPT !.tex_live = @ - 1] ELSE g
      [] c.fn = "renderer_texture_map_acquire_resources" ->
            IF c.b = 1 THEN [g EXCEPT !.map_live = @ + 1] ELSE g
      [] c.fn = "renderer_texture_map_release_resources" ->
            IF c.a = 1 THEN [g EXCEPT !.map_live = @ - 1] ELSE g
      [] c.fn = "renderer_shader_acquire_instance_resources" ->
            IF c.b = 1 THEN [g EXCEPT !.inst_live = @ \cup {c.a}] ELSE g
      [] c.fn = "renderer_shader_release_instance_resources" ->
            [g EXCEPT !.inst_live = @ \ {c.a}]
      [] c.fn = "geometry_system_acquire_from_config" ->
            IF c.b = 1 THEN [g EXCEPT !.geom_live = @ + 1] ELSE g
      [] c.fn = "geometry_system_release" ->
            [g EXCEPT !.geom_live = @ - 1]
      [] c.fn = "resource_system_load" ->
            IF c.b = 1 THEN [g EXCEPT !.img_live = @ \cup {c.a}] ELSE g
      [] c.fn = "resource_system_unload" ->
            [g EXCEPT !.img_live = @ \ {c.a}]
      [] c.fn = "kallocate" -> [g EXCEPT !.px_live = @ \cup {c.a}]
      [] c.fn = "kfree" -> [g EXCEPT !.px_live = @ \ {c.a}]
      [] OTHER -> g

RECURSIVE Replay(_, _)
Replay(g, cs) ==
    IF cs = <<>> THEN g
    ELSE Replay(Effect(g, Head(cs)), Tail(cs))

\* ------------------------------------------------------- skybox_state
\* The texture's name buffer is kept as "named": whether a name was copied
\* into it (its size, TEXTURE_NAME_MAX_LENGTH, belongs to resource_types.h).
\* internal_data is what the renderer keeps in the struct it is handed: 1
\* while the struct holds a backend resource, 0 (null) otherwise.
ZeroTexture == [width |-> 0, height |-> 0, channel_count |-> 0,
                generation |-> 0, named |-> FALSE, internal_data |-> 0]

ZeroMap == [texture |-> 0, use |-> "0", filter_minify |-> "0",
            filter_magnify |-> "0", repeat_u |-> "0", repeat_v |-> "0",
            repeat_w |-> "0", internal_data |-> 0]

\* kzero_memory(state_ptr, sizeof(skybox_state))
ZeroState == [current_name |-> ZeroBuffer(SKYBOX_NAME_MAX_LENGTH),
              is_loaded |-> FALSE,
              cubemap_texture |-> ZeroTexture,
              cubemap_map |-> ZeroMap,
              cube_geometry |-> 0,
              shader_id |-> 0,
              shader_instance_id |-> 0,
              render_frame_number |-> 0,
              base_path |-> ""]

\* drawn_frame is what the caller remembers, when it calls render, of the
\* call before: the frame number it passed if that call was a render that
\* drew, JustLoaded if it was a load that returned true, and NoFrame
\* otherwise.  A caller that goes on to another operation keeps no memory
\* (NoFrame).
\* editor is the model editor's state together with the mesh array and the
\* mesh count of the application that its configuration points to.
\* shutdown_waiting is the number of imgui_system_shutdown calls that are
\* blocked in vkDeviceWaitIdle.
\* imgui is the two statics of the ImGui system together with what Vulkan,
\* ImGui and its backends hold for it.
VARIABLES state_ptr, state, gpu, calls, last_op, drawn_frame, editor, imgui,
          shutdown_waiting

vars == <<state_ptr, state, gpu, calls, last_op, drawn_frame, editor, imgui,
          shutdown_waiting>>

NoFrame == 0 - 1
JustLoaded == 0 - 2

\* ------------------------------------------------------------ the inputs
\* An image handed out by the resource system.
Image(w, h, c) == [width |-> w, height |-> h, channel_count |-> c]

BaseImage == Image(2, 2, 4)

\* Images that differ from the reference image in exactly one attribute.
OddImages == {Image(3, 2, 4), Image(2, 3, 4), Image(2, 2, 3)}

\* The answer of resource_system_load for one face: an image, or "fail".
FaceOutcomes == {[ok |-> TRUE, img |-> BaseImage]}
                \cup {[ok |-> TRUE, img |-> i] : i \in OddImages}
                \cup {[ok |-> FALSE, img |-> BaseImage]}

BaseFace == [ok |-> TRUE, img |-> BaseImage]

\* The six answers of one load call: at most MaxOddFaces faces deviate from
\* the reference image, all of them in the same way (by failing to load or
\* by one attribute).
OddFaceSets == {D \in SUBSET Faces : Cardinality(D) <= MaxOddFaces}

FaceSets ==
    UNION {{[i \in Faces |-> IF i \in D THEN d ELSE BaseFace] :
               d \in FaceOutcomes \ {BaseFace}} : D \in OddFaceSets}

\* ------------------------------------------------- skybox_system_unload
\* Outcome of a (sub)operation: the state block and the calls appended.
Out(s, cs) == [st |-> s, calls |-> cs]

\* Variant that releases whatever id is stored.
unload_release_instance_any_id(s, lookup_ok) ==
    LET get == Call("shader_system_get_by_id", s.shader_id, B2N(lookup_ok))
    IN  IF lookup_ok
        THEN Out([s EXCEPT !.shader_instance_id = INVALID_ID],
                 <<get, Call("renderer_shader_release_instance_resources",
                             s.shader_instance_id, 0)>>)
        ELSE Out(s, <<get>>)

\* Lines 212-216: look the shader up and release the instance resources.
unload_release_instance(s, lookup_ok) ==
    LET get == Call("shader_system_get_by_id", s.shader_id, B2N(lookup_ok))
    IN  IF lookup_ok /\ s.shader_instance_id # INVALID_ID
        THEN Out([s EXCEPT !.shader_instance_id = INVALID_ID],
                 <<get, Call("renderer_shader_release_instance_resources",
                             s.shader_instance_id, 0)>>)
        ELSE Out(s, <<get>>)

\* Lines 218-224: release the map resources, then destroy the texture.
unload_release_texture(s) ==
    Out([s EXCEPT !.cubemap_map = ZeroMap, !.cubemap_texture = ZeroTexture],
        <<Call("renderer_texture_map_release_resources",
               s.cubemap_map.internal_data, 0),
          Call("renderer_cubemap_destroy",
               s.cubemap_texture.internal_data, 0)>>)

\* Variant of the guard that does not look at is_loaded.
unload_applies_always(sp, s) == sp

\* Line 210: unload acts only on a running subsystem with a skybox loaded.
unload_applies(sp, s) == sp /\ s.is_loaded

\* Variant of unload that leaves current_name as it is.
skybox_system_unload_keeps_name(sp, s, g, lookup_ok) ==
    IF unload_applies(sp, s)
    THEN LET r1 == unload_release_instance(s, lookup_ok)
             r2 == unload_release_texture(r1.st)
         IN  Out([r2.st EXCEPT !.is_loaded = FALSE], r1.calls \o r2.calls)
    ELSE Out(s, <<>>)

\* g is the ledger at the time of the call.
skybox_system_unload(sp, s, g, lookup_ok) ==
    IF unload_applies(sp, s)
    THEN LET r1 == unload_release_instance(s, lookup_ok)
             r2 == unload_release_texture(r1.st)
         IN  Out([r2.st EXCEPT !.current_name[1] = 0, !.is_loaded = FALSE],
                 r1.calls \o r2.calls)
    ELSE Out(s, <<>>)

\* ------------------------------------------------------ the queries
skybox_system_is_loaded(sp, s) == IF sp THEN s.is_loaded ELSE FALSE

\* Bytes a C-string read meets after an unterminated current_name: the
\* is_loaded byte that follows the buffer in the struct, then padding.
Overrun(s) == IF s.is_loaded THEN {<<1>>, <<1, 1>>} ELSE {<<>>}

\* The strings a caller can read through the returned pointer.
skybox_system_get_current_name(sp, s) ==
    IF ~sp THEN {<<>>}
    ELSE IF Terminated(s.current_name) THEN {CStr(s.current_name)}
    ELSE {s.current_name \o t : t \in Overrun(s)}

\* --------------------------------------------------- load_cubemap_faces
\* u8* face_pixels[6] = {0}: a face's entry is NullPx until allocated, and
\* afterwards the byte size it was allocated with.
NullPx == <<>>
NoPixels == [i \in Faces |-> NullPx]

\* A u32 byte size is kept as its two 16-bit halves <<high, low>>, the
\* value high * 65536 + low.
Half == 65536

U32(n) == <<(n \div Half) % Half, n % Half>>

\* x + y in u32.
Add32(x, y) ==
    <<(x[1] + y[1] + ((x[2] + y[2]) \div Half)) % Half, (x[2] + y[2]) % Half>>

\* x * n in u32, for a u32 x and a number n: half by half while n is below
\* 2^15 (every intermediate product then stays below 2^31), and by
\* doubling x and halving n for a larger n.
RECURSIVE Mul32(_, _)
Mul32(x, n) ==
    IF n < Half \div 2
    THEN LET low == x[2] * n
         IN  <<(x[1] * n + low \div Half) % Half, low % Half>>
    ELSE LET d == Mul32(Add32(x, x), n \div 2)
         IN  IF n % 2 = 1 THEN Add32(x, d) ELSE d

\* u32 size = width * height * channels, in 32-bit unsigned arithmetic.
PixelSize(w, h, c) == Mul32(Mul32(U32(w), h), c)

RECURSIVE free_loop(_, _, _)
free_loop(i, px, size) ==
    IF i >= FACE_COUNT THEN <<>>
    ELSE (IF px[i] # NullPx THEN <<Call("kfree", i, size)>> ELSE <<>>)
         \o free_loop(i + 1, px, size)

\* Variant of free_face_pixels that skips the first buffer.
free_face_pixels_from_1(px, width, height, channels) ==
    free_loop(1, px, PixelSize(width, height, channels))

\* The kfree calls made for the non-null entries, in index order; every
\* entry is null afterwards.
free_face_pixels(px, width, height, channels) ==
    free_loop(0, px, PixelSize(width, height, channels))

\* Result of the fetch: ok, the calls made, the buffers still held and the
\* reference dimensions.
Fetch(ok, cs, px, w, h, c) ==
    [ok |-> ok, calls |-> cs, px |-> px, width |-> w, height |-> h,
     channels |-> c]

\* Variant of the comparison that looks at the width only.
dimensions_differ_width_only(img, w, h, c) == img.width # w

\* Variant without the comparison.
dimensions_differ_never(img, w, h, c) == FALSE

\* Line 330: the comparison of a later face with the reference dimensions.
dimensions_differ(img, w, h, c) == img.width # w \/ img.height # h

\* Variant that keeps the image of the mismatching face.
mismatch_exit_keeps_image(i, px, w, h, c) == free_face_pixels(px, w, h, c)

\* Lines 332-333: the image of the mismatching face is handed back and the
\* buffers copied so far are freed.
mismatch_exit(i, px, w, h, c) ==
    <<Call("resource_system_unload", i, 0)>> \o free_face_pixels(px, w, h, c)

\* Line 310: string_format("../skyboxes/%s/%s", skybox_name, face_names[i]),
\* the pieces of the formatted path in order.
resource_name(skybox_name, i) ==
    <<"../skyboxes/", skybox_name, "/", face_names[i + 1]>>

\* One iteration i of the loop (lines 306-344) and the iterations after it.
\* Line 340: what kallocate returns for a request of `size` bytes, as the
\* entry of face_pixels.  null_on_zero tells whether the allocator answers a
\* request of 0 bytes with null; the code does not look at the result.
kallocate(size, null_on_zero) ==
    IF null_on_zero /\ size = U32(0) THEN NullPx ELSE size

RECURSIVE face_loop(_, _, _, _, _, _, _, _)
face_loop(i, faces, null_on_zero, cs, px, w, h, c) ==
    IF i >= FACE_COUNT THEN Fetch(TRUE, cs, px, w, h, c)
    ELSE
    LET f == faces[i]
        img == f.img
        req == Call("resource_system_load", i, B2N(f.ok))
    IN  IF ~f.ok
        THEN Fetch(FALSE,
                   cs \o <<req>>
                      \o (IF i > 0 THEN free_face_pixels(px, w, h, c)
                          ELSE <<>>),
                   IF i > 0 THEN NoPixels ELSE px, w, h, c)
        ELSE
        LET w1 == IF i = 0 THEN img.width ELSE w
            h1 == IF i = 0 THEN img.height ELSE h
            c1 == IF i = 0 THEN img.channel_count ELSE c
        IN  IF i # 0 /\ dimensions_differ(img, w, h, c)
            THEN Fetch(FALSE,
                       cs \o <<req>> \o mismatch_exit(i, px, w, h, c),
                       NoPixels, w, h, c)
            ELSE
            LET size == PixelSize(img.width, img.height, img.channel_count)
            IN  face_loop(i + 1, faces, null_on_zero,
                          cs \o <<req, Call("kallocate", i, size),
                                  Call("resource_system_unload", i, 0)>>,
                          [px EXCEPT ![i] = kallocate(size, null_on_zero)],
                          w1, h1, c1)

load_cubemap_faces(faces, null_on_zero) ==
    face_loop(0, faces, null_on_zero, <<>>, NoPixels, 0, 0, 0)

\* --------------------------------------------------- skybox_system_load
Ret(r, s, cs) == [ret |-> r, st |-> s, calls |-> cs]

\* Variant that stores the skybox name together with the texture metadata,
\* before the acquisitions have succeeded.
load_texture_metadata_sets_name(s, name, f) ==
    [s EXCEPT !.cubemap_texture =
        [width |-> f.width, height |-> f.height,
         channel_count |-> f.channels, generation |-> INVALID_ID,
         named |-> name # <<>>,
         internal_data |-> s.cubemap_texture.internal_data],
              !.current_name = string_ncopy(name, SKYBOX_NAME_MAX_LENGTH)]

\* Lines 156-160: the texture metadata written before the upload.
load_texture_metadata(s, name, f) ==
    [s EXCEPT !.cubemap_texture =
        [width |-> f.width, height |-> f.height,
         channel_count |-> f.channels, generation |-> INVALID_ID,
         named |-> name # <<>>,
         internal_data |-> s.cubemap_texture.internal_data]]

\* Lines 168-174: the sampler description bound to the texture.
load_map_setup(s) ==
    [s EXCEPT !.cubemap_map =
        [texture |-> 1, use |-> "TEXTURE_USE_MAP_DIFFUSE",
         filter_minify |-> "TEXTURE_FILTER_MODE_LINEAR",
         filter_magnify |-> "TEXTURE_FILTER_MODE_LINEAR",
         repeat_u |-> "TEXTURE_REPEAT_CLAMP_TO_EDGE",
         repeat_v |-> "TEXTURE_REPEAT_CLAMP_TO_EDGE",
         repeat_w |-> "TEXTURE_REPEAT_CLAMP_TO_EDGE",
         internal_data |-> s.cubemap_map.internal_data]]

\* Lines 162-174: the renderer uploads the faces into the texture struct
\* it is handed (the call returns nothing), the buffers f.px are freed and
\* the sampler description is written.
load_upload(s, f, create_ok) ==
    Out(load_map_setup(
          [s EXCEPT !.cubemap_texture.internal_data = B2N(create_ok)]),
        <<Call("renderer_cubemap_create", 0, B2N(create_ok))>>
          \o free_face_pixels(f.px, f.width, f.height, f.channels))

\* Line 177: the sampler resources of the map.
load_acquire_map(s, map_ok) ==
    Out([s EXCEPT !.cubemap_map.internal_data = B2N(map_ok)],
        <<Call("renderer_texture_map_acquire_resources", 0, B2N(map_ok))>>)

\* What the renderer leaves in a struct it has released: it clears its
\* handle (0), leaves the struct as it is (1), or zeroes the struct (2).
\* The renderer is no part of these sources, so each is possible.
DestroyModes == 0 .. 2

\* The texture struct after renderer_cubemap_destroy.
texture_after_destroy(tex, destroy_mode) ==
    CASE destroy_mode = 0 -> [tex EXCEPT !.internal_data = 0]
      [] destroy_mode = 1 -> tex
      [] destroy_mode = 2 -> ZeroTexture

\* The map struct after renderer_texture_map_release_resources.
map_after_release(map, destroy_mode) ==
    IF destroy_mode = 1 THEN map ELSE [map EXCEPT !.internal_data = 0]

\* Variant of the map rollback that returns without destroying the texture.
rollback_map_failure_no_destroy(s, destroy_mode) == Out(s, <<>>)

\* Lines 178-180: the map resources could not be acquired.
rollback_map_failure(s, destroy_mode) ==
    Out([s EXCEPT !.cubemap_texture =
                      texture_after_destroy(@, destroy_mode)],
        <<Call("renderer_cubemap_destroy",
               s.cubemap_texture.internal_data, 0)>>)

\* Variant of the instance rollback that releases the map resources only.
rollback_instance_failure_map_only(s, destroy_mode) ==
    Out([s EXCEPT !.cubemap_map = map_after_release(@, destroy_mode)],
        <<Call("renderer_texture_map_release_resources",
               s.cubemap_map.internal_data, 0)>>)

\* Lines 186-189 and 194-197: the shader or its instance is unavailable.
rollback_instance_failure(s, destroy_mode) ==
    Out([s EXCEPT !.cubemap_map = map_after_release(@, destroy_mode),
                  !.cubemap_texture =
                      texture_after_destroy(@, destroy_mode)],
        <<Call("renderer_texture_map_release_resources",
               s.cubemap_map.internal_data, 0),
          Call("renderer_cubemap_destroy",
               s.cubemap_texture.internal_data, 0)>>)

\* The slot the renderer hands out: the lowest free one, if any.
FreeInstances(g) == (0 .. (MaxInstances - 1)) \ g.inst_live
Min(S) == CHOOSE x \in S : \A y \in S : x <= y

\* Variant of the commit that leaves the stored frame number as it was.
load_commit_keeps_frame(s, name, id) ==
    [s EXCEPT !.shader_instance_id = id,
              !.current_name = string_ncopy(name, SKYBOX_NAME_MAX_LENGTH),
              !.is_loaded = TRUE]

\* Lines 201-203: the commit of a successful load.
load_commit(s, name, id) ==
    [s EXCEPT !.shader_instance_id = id,
              !.current_name = string_ncopy(name, SKYBOX_NAME_MAX_LENGTH),
              !.is_loaded = TRUE,
              !.render_frame_number = U64_MAX]

\* Lines 155-206, entered with the six pixel buffers f.px; s and cs are the
\* state and the calls after the fetch, g0 the ledger before the call.
load_acquire(s, g0, cs, name, f, env) ==
    LET t1 == load_upload(load_texture_metadata(s, name, f), f,
                          env.create_ok)
        c1 == cs \o t1.calls
        m2 == load_acquire_map(t1.st, env.map_ok)
        s2 == m2.st
        c2 == c1 \o m2.calls
        c3 == c2 \o <<Call("shader_system_get_by_id", s.shader_id,
                           B2N(env.shader_ok))>>
        free == FreeInstances(Replay(g0, c3))
        \* a refused acquisition leaves the out parameter as it was
        got == env.inst_ok /\ free # {}
        id == IF got THEN Min(free) ELSE s2.shader_instance_id
        c4 == c3 \o <<Call("renderer_shader_acquire_instance_resources",
                           id, B2N(got))>>
    IN  IF ~env.map_ok
        THEN LET b == rollback_map_failure(s2, env.destroy_mode)
             IN  Ret(FALSE, b.st, c2 \o b.calls)
        ELSE IF ~env.shader_ok
        THEN LET b == rollback_instance_failure(s2, env.destroy_mode)
             IN  Ret(FALSE, b.st, c3 \o b.calls)
        ELSE IF ~got
        THEN LET b == rollback_instance_failure(s2, env.destroy_mode)
             IN  Ret(FALSE, b.st, c4 \o b.calls)
        ELSE Ret(TRUE, load_commit(s2, name, id), c4)

\* Variant of the guards that does not look at the shader id.
load_refused_without_state_only(sp, s) == ~sp

\* Lines 130-138: no subsystem, or no skybox shader.
load_refused(sp, s) == ~sp \/ s.shader_id = INVALID_ID

\* Lines 129-206, with f the result of the fetch of line 150.
load_with_faces(sp, s, g, name, env, f) ==
    IF load_refused(sp, s) THEN Ret(FALSE, s, <<>>)
    ELSE
    LET u == IF s.is_loaded
             THEN skybox_system_unload(sp, s, g, env.unload_shader_ok)
             ELSE Out(s, <<>>)
    IN  IF ~f.ok THEN Ret(FALSE, u.st, u.calls \o f.calls)
        ELSE load_acquire(u.st, g, u.calls \o f.calls, name, f, env)

skybox_system_load(sp, s, g, name, env) ==
    load_with_faces(sp, s, g, name, env,
                    load_cubemap_faces(env.faces, env.alloc_null_on_zero))

\* ------------------------------------------------- skybox_system_render
\* Two consecutive frame numbers, the second one the largest u64.
Frames == {U64_MAX - 1, U64_MAX}

\* The stage of a render call that fails, if any: use shader, get shader,
\* bind globals, set projection, set view, apply instance.
NoFailure == "none"
RenderStages == {"use", "get", "bind_globals", "projection", "view",
                 "apply_instance"}

\* Variant that asks for the upload on every render.
needs_update_always(s, frame) == TRUE

\* Line 284
needs_update(s, frame) == s.render_frame_number # frame

\* Variant of the guard that does not look at the cube geometry.
render_skips_unloaded_only(sp, s) == ~sp \/ ~s.is_loaded

\* Line 240: nothing to draw.
render_skips(sp, s) == ~sp \/ ~s.is_loaded \/ s.cube_geometry = 0

\* Variant that submits the cube twice.
render_draw_twice(s) ==
    <<Call("renderer_draw_geometry", s.cube_geometry, 1),
      Call("renderer_draw_geometry", s.cube_geometry, 1)>>

\* Lines 292-296: the draw of the cube; b = 1 is the identity model matrix.
render_draw(s) == <<Call("renderer_draw_geometry", s.cube_geometry, 1)>>

\* Lines 248-285: the calls made up to and including the instance apply.
render_calls(s, frame, fail, n) ==
    SubSeq(<<Call("shader_system_use_by_id", s.shader_id,
                  B2N(fail # "use")),
             Call("shader_system_get_by_id", s.shader_id,
                  B2N(fail # "get")),
             Call("renderer_shader_bind_globals", 0,
                  B2N(fail # "bind_globals")),
             Call("shader_system_uniform_set", 1,
                  B2N(fail # "projection")),
             Call("shader_system_uniform_set", 2,
                  B2N(fail # "view")),
             Call("shader_system_apply_global", 0, 1),
             Call("shader_system_bind_instance", s.shader_instance_id, 1),
             Call("shader_system_apply_instance",
                  B2N(needs_update(s, frame)),
                  B2N(fail # "apply_instance"))>>, 1, n)

\* Variant in which a refused instance apply does not end the render.
skybox_system_render_ignores_apply(sp, s, frame, fail) ==
    IF render_skips(sp, s) THEN Out(s, <<>>)
    ELSE IF fail = "use" THEN Out(s, render_calls(s, frame, fail, 1))
    ELSE IF fail = "get" THEN Out(s, render_calls(s, frame, fail, 2))
    ELSE IF fail = "bind_globals" THEN Out(s, render_calls(s, frame, fail, 3))
    ELSE IF fail = "projection" THEN Out(s, render_calls(s, frame, fail, 4))
    ELSE IF fail = "view" THEN Out(s, render_calls(s, frame, fail, 5))
    ELSE Out([s EXCEPT !.render_frame_number = frame],
             render_calls(s, frame, fail, 8) \o render_draw(s))

skybox_system_render(sp, s, frame, fail) ==
    IF render_skips(sp, s) THEN Out(s, <<>>)
    ELSE IF fail = "use" THEN Out(s, render_calls(s, frame, fail, 1))
    ELSE IF fail = "get" THEN Out(s, render_calls(s, frame, fail, 2))
    ELSE IF fail = "bind_globals" THEN Out(s, render_calls(s, frame, fail, 3))
    ELSE IF fail = "projection" THEN Out(s, render_calls(s, frame, fail, 4))
    ELSE IF fail = "view" THEN Out(s, render_calls(s, frame, fail, 5))
    ELSE IF fail = "apply_instance"
         THEN Out(s, render_calls(s, frame, fail, 8))
    ELSE Out([s EXCEPT !.render_frame_number = frame],
             render_calls(s, frame, fail, 8) \o render_draw(s))

\* --------------------------------- skybox_system_initialize / shutdown
\* config.skybox_base_path; "" is the null pointer (the default path is used).
ConfigPaths == {""}

\* The id the shader system gives "Shader.Builtin.Skybox" when it has it.
SkyboxShaderId == 1

\* Lines 407-418: cube_geometry is what the geometry system returns.
create_skybox_cube(s, cube_ok) ==
    Out([s EXCEPT !.cube_geometry = B2N(cube_ok)],
        <<Call("geometry_system_acquire_from_config", 0, B2N(cube_ok))>>)

\* `mem` is the state argument (FALSE: null, the sizing query), `path` the
\* configured base path ("": null).  The result carries the new state_ptr
\* and the value written to *memory_requirement (line 49).
skybox_system_initialize(sp, s, mem, path, shader_found, cube_ok) ==
    IF ~mem THEN [ret |-> TRUE, sp |-> sp, st |-> s, calls |-> <<>>,
                  memory_requirement |-> "sizeof(skybox_state)"]
    ELSE
    LET id == IF shader_found THEN SkyboxShaderId ELSE INVALID_ID
        s1 == [ZeroState EXCEPT
                 !.base_path = IF path # "" THEN path
                               ELSE "../assets/skyboxes",
                 !.shader_id = id]
        c1 == <<Call("shader_system_get_id", 0, id)>>
        cube == create_skybox_cube(s1, cube_ok)
    IN  IF id = INVALID_ID
        THEN [ret |-> TRUE, sp |-> TRUE, st |-> s1, calls |-> c1,
              memory_requirement |-> "sizeof(skybox_state)"]
        ELSE [ret |-> cube.st.cube_geometry # 0, sp |-> TRUE,
              st |-> cube.st, calls |-> c1 \o cube.calls,
              memory_requirement |-> "sizeof(skybox_state)"]

\* Lines 85-88: the cube geometry is handed back if there is one.
shutdown_release_geometry(s) ==
    IF s.cube_geometry # 0
    THEN Out([s EXCEPT !.cube_geometry = 0],
             <<Call("geometry_system_release", s.cube_geometry, 0)>>)
    ELSE Out(s, <<>>)

skybox_system_shutdown(sp, s, g, lookup_ok) ==
    IF ~sp THEN [sp |-> sp, st |-> s, calls |-> <<>>]
    ELSE
    LET u == skybox_system_unload(sp, s, g, lookup_ok)
        r == shutdown_release_geometry(u.st)
    IN  [sp |-> FALSE, st |-> r.st, calls |-> u.calls \o r.calls]

\* ------------------------------------------------------- the model editor
\* config.max_mesh_count
MaxMeshCount == 3

\* The largest number of geometry configs in a mesh resource.
MaxGeometryCount == 2

\* sizeof(geometry*)
PtrSize == 8

\* The models that can be asked for.
ModelNames == {1}

\* No array: the null geometries pointer.
NullArray == 0 - 1

\* A mesh of the application's array: the number of geometries, the
\* geometry pointers stored at the front of the array, and the byte size of
\* the array allocation (NullArray when geometries is null).
ZeroMesh == [geometry_count |-> 0, geometries |-> <<>>, alloc |-> NullArray]

MeshSlots == 0 .. (MaxMeshCount - 1)

\* model_editor_state (lines 39-64) after static initialisation, with the
\* application's mesh array and mesh count.
ZeroEditor == [initialized |-> FALSE,
               has_meshes |-> FALSE,
               max_mesh_count |-> 0,
               editing_mesh_index |-> 0,
               meshes |-> [i \in MeshSlots |-> ZeroMesh],
               mesh_count |-> 0]

\* The pointer the geometry system hands out for config i of a model.
GeometryHandle(model, i) == model * (MaxGeometryCount + 1) + i + 1

\* model_editor_config: has_meshes tells whether config.meshes and
\* config.mesh_count point to the application's array and count (FALSE:
\* they are null).
EditorConfigs == [has_meshes : BOOLEAN, max_mesh_count : {MaxMeshCount}]

NoConfig == [has_meshes |-> TRUE, max_mesh_count |-> MaxMeshCount]

\* Lines 79-111: the configuration is taken over, the selection is reset.
model_editor_initialize(e, config) ==
    IF e.initialized THEN e
    ELSE [e EXCEPT !.initialized = TRUE,
                   !.has_meshes = config.has_meshes,
                   !.max_mesh_count = config.max_mesh_count,
                   !.editing_mesh_index = 0 - 1]

\* Lines 113-120: the editor's own state is zeroed; the application keeps
\* its meshes and its count.
model_editor_shutdown(e) ==
    IF ~e.initialized THEN e
    ELSE [ZeroEditor EXCEPT !.meshes = e.meshes, !.mesh_count = e.mesh_count]

\* Lines 246-254: the geometries of the configs are acquired in order; ok[i]
\* tells whether the geometry system returns a geometry for config i.
RECURSIVE acquire_loop(_, _, _, _, _)
acquire_loop(i, n, model, ok, acc) ==
    IF i >= n THEN acc
    ELSE acquire_loop(i + 1, n, model, ok,
           [geometries |-> IF ok[i]
                           THEN Append(acc.geometries, GeometryHandle(model, i))
                           ELSE acc.geometries,
            calls |-> Append(acc.calls,
                        Call("geometry_system_acquire_from_config", i,
                             B2N(ok[i])))])

\* Variant of the capacity test that lets one more mesh in.
mesh_array_full_off_by_one(e) == e.mesh_count > e.max_mesh_count

\* Line 227: the mesh array has no free slot.
mesh_array_full(e) == e.mesh_count >= e.max_mesh_count

\* Lines 221-273.  env holds the collaborators' answers: res_ok, the
\* geometry count of the resource and the outcome of each acquisition.
model_editor_load_model(e, model, env) ==
    IF ~e.initialized \/ ~e.has_meshes THEN Ret(FALSE, e, <<>>)
    ELSE IF mesh_array_full(e) THEN Ret(FALSE, e, <<>>)
    ELSE
    LET req == Call("resource_system_load", model, B2N(env.res_ok))
        n == env.geometry_count
        slot == e.mesh_count
        size == PtrSize * n
        acq == acquire_loop(0, n, model, env.acquired,
                            [geometries |-> <<>>, calls |-> <<>>])
        valid == Len(acq.geometries)
        c1 == <<req, Call("kallocate", slot, size)>> \o acq.calls
    IN  IF ~env.res_ok THEN Ret(FALSE, e, <<req>>)
        ELSE IF valid = 0
        THEN Ret(FALSE,
                 [e EXCEPT !.meshes[slot] = ZeroMesh],
                 c1 \o <<Call("kfree", slot, size)>>)
        ELSE Ret(TRUE,
                 [e EXCEPT !.meshes[slot] =
                               [geometry_count |-> valid,
                                geometries |-> acq.geometries,
                                alloc |-> size],
                           !.mesh_count = @ + 1],
                 c1 \o <<Call("resource_system_unload", model, 0)>>)

\* Lines 286-291: every geometry of the mesh is released.
release_geometries(m) ==
    [i \in 1 .. Len(m.geometries) |->
        Call("geometry_system_release", m.geometries[i], 0)]

\* Variant that fills the freed slot with the last mesh.
shift_meshes_swap_with_last(meshes, index, count) ==
    [meshes EXCEPT ![index] = meshes[count - 1]]

\* Lines 300-303: the meshes behind index move one slot down; the slot of
\* the last mesh keeps its content.
shift_meshes(meshes, index, count) ==
    [i \in MeshSlots |->
        IF i >= index /\ i < count - 1 THEN meshes[i + 1] ELSE meshes[i]]

\* Lines 308-312: the selection after the mesh at index was removed.
editing_index_after_unload(e, index) ==
    IF e.editing_mesh_index = index THEN 0 - 1
    ELSE IF e.editing_mesh_index > index THEN e.editing_mesh_index - 1
    ELSE e.editing_mesh_index

\* Lines 275-316.
model_editor_unload_model(e, index) ==
    IF ~e.initialized \/ ~e.has_meshes THEN Ret(FALSE, e, <<>>)
    ELSE IF index >= e.mesh_count THEN Ret(FALSE, e, <<>>)
    ELSE
    LET m == e.meshes[index]
        free == IF m.alloc # NullArray
                THEN <<Call("kfree", index, PtrSize * m.geometry_count)>>
                ELSE <<>>
        edit == editing_index_after_unload(e, index)
    IN  Ret(TRUE,
            [e EXCEPT !.meshes = shift_meshes(e.meshes, index, e.mesh_count),
                      !.mesh_count = @ - 1,
                      !.editing_mesh_index = edit],
            release_geometries(m) \o free)

\* Lines 355-364: a click on a mesh of the list selects it for editing.
select_mesh(e, i) == [e EXCEPT !.editing_mesh_index = i]

\* The answers of the resource system and of the geometry system to one
\* load_model call; an outcome the call does not reach is fixed.  The
\* geometry system refuses none, one or all of the configs of a resource.
ModelEnvs ==
    {env \in [res_ok : BOOLEAN,
              geometry_count : 0 .. MaxGeometryCount,
              acquired : [0 .. (MaxGeometryCount - 1) -> BOOLEAN]] :
        /\ \A i \in 0 .. (MaxGeometryCount - 1) :
              i >= env.geometry_count => env.acquired[i]
        /\ ~env.res_ok => env.geometry_count = 0
        /\ Cardinality({i \in 0 .. (MaxGeometryCount - 1) :
                           ~env.acquired[i]}) \in {0, 1, env.geometry_count}}

NoModelEnv == [res_ok |-> TRUE, geometry_count |-> 0,
               acquired |-> [i \in 0 .. (MaxGeometryCount - 1) |-> TRUE]]

\* ------------------------------------------------------- imgui_system
\* The number of slots of context->registered_passes.
MaxRenderpasses == 2

\* The largest number of ImGui contexts and of descriptor pools alive at
\* one time, and the largest number of contexts or backends torn down
\* without having been set up.
MaxImguiObjects == 2

\* The largest number of shutdown calls blocked in vkDeviceWaitIdle at one
\* time.
MaxShutdownCalls == 2

VK_NULL_HANDLE == 0

\* Lines 31-32 with nothing created: g_initialized and
\* g_imgui_descriptor_pool are the statics; pools are the descriptor
\* pools alive on the device, contexts, platform and renderer count the
\* ImGui contexts, the Win32 backends and the Vulkan backends that were
\* set up and not torn down.
ZeroImgui == [g_initialized |-> FALSE,
              g_imgui_descriptor_pool |-> VK_NULL_HANDLE,
              pools |-> {},
              contexts |-> 0,
              platform |-> 0,
              renderer |-> 0]

\* A registered renderpass slot: empty (no internal data), a pass that
\* clears the colour buffer, or one that does not (the UI pass).
PassKinds == {"none", "clear", "ui"}
PassSlots == 0 .. (MaxRenderpasses - 1)

\* Lines 108-118: the first pass with internal data that does not clear the
\* colour buffer.
first_ui_pass(passes) ==
    LET S == {i \in PassSlots : passes[i] = "ui"}
    IN  IF S = {} THEN 0 - 1 ELSE CHOOSE i \in S : \A j \in S : i <= j

\* Lines 120-128: the fallback, the first pass with internal data.
first_valid_pass(passes) ==
    LET S == {i \in PassSlots : passes[i] # "none"}
    IN  IF S = {} THEN 0 - 1 ELSE CHOOSE i \in S : \A j \in S : i <= j

\* Lines 106-128: the pass ImGui renders in, -1 if there is none.
find_ui_renderpass(passes) ==
    IF first_ui_pass(passes) # 0 - 1 THEN first_ui_pass(passes)
    ELSE first_valid_pass(passes)

\* The handle vkCreateDescriptorPool writes on success: one that names no
\* pool alive.
NewPool(im) ==
    CHOOSE h \in 1 .. (MaxImguiObjects + 1) :
        /\ h \notin im.pools
        /\ \A k \in 1 .. (MaxImguiObjects + 1) : k \notin im.pools => h <= k

\* Lines 81-91: the pool is created into the static; a refused creation
\* leaves the static as it was.
imgui_create_pool(im, pool_ok) ==
    IF pool_ok
    THEN [im EXCEPT !.g_imgui_descriptor_pool = NewPool(im),
                    !.pools = @ \cup {NewPool(im)}]
    ELSE im

\* Lines 94-104: the ImGui context and the Win32 backend.
imgui_create_context(im) ==
    [im EXCEPT !.contexts = @ + 1, !.platform = @ + 1]

\* Lines 41-163.  env holds the answers of the collaborators: whether
\* there is a Vulkan context and a window handle, whether the pool could
\* be created, the registered passes and the answer of the Vulkan backend.
imgui_system_initialize(im, env) ==
    IF im.g_initialized THEN Ret(TRUE, im, <<>>)
    ELSE
    LET c1 == <<Call("vulkan_get_context", 0, B2N(env.context_ok))>>
        c2 == c1 \o <<Call("platform_get_hwnd", 0, B2N(env.hwnd_ok))>>
        im3 == imgui_create_pool(im, env.pool_ok)
        c3 == c2 \o <<Call("vkCreateDescriptorPool",
                           im3.g_imgui_descriptor_pool, B2N(env.pool_ok))>>
        im4 == imgui_create_context(im3)
        c4 == c3 \o <<Call("ImGui::CreateContext", 0, 1),
                      Call("ImGui_ImplWin32_Init", 0, 1)>>
        pass == find_ui_renderpass(env.passes)
        c5 == c4 \o <<Call("ImGui_ImplVulkan_Init", pass,
                           B2N(env.vulkan_init_ok))>>
    IN  IF ~env.context_ok THEN Ret(FALSE, im, c1)
        ELSE IF ~env.hwnd_ok THEN Ret(FALSE, im, c2)
        ELSE IF ~env.pool_ok THEN Ret(FALSE, im3, c3)
        ELSE IF pass = 0 - 1 THEN Ret(FALSE, im4, c4)
        ELSE IF ~env.vulkan_init_ok THEN Ret(FALSE, im4, c5)
        ELSE Ret(TRUE,
                 [im4 EXCEPT !.renderer = @ + 1, !.g_initialized = TRUE],
                 c5)

\* Lines 175-177: the backends and the context are torn down.
imgui_destroy_context(im) ==
    [im EXCEPT !.renderer = @ - 1, !.platform = @ - 1, !.contexts = @ - 1]

\* Lines 179-186: the pool is destroyed if there is a Vulkan context.
imgui_destroy_pool(im, context_ok) ==
    IF im.g_imgui_descriptor_pool # VK_NULL_HANDLE /\ context_ok
    THEN [im EXCEPT !.pools = @ \ {im.g_imgui_descriptor_pool},
                    !.g_imgui_descriptor_pool = VK_NULL_HANDLE]
    ELSE im

\* Lines 170-173: the Vulkan context is fetched and, if there is one, the
\* call waits until the device is idle.
imgui_shutdown_wait(context_ok) ==
    <<Call("vulkan_get_context", 0, B2N(context_ok))>>
      \o (IF context_ok THEN <<Call("vkDeviceWaitIdle", 0, 1)>> ELSE <<>>)

\* Lines 175-189, on the statics as they are when the wait is over.
imgui_shutdown_teardown(im, context_ok) ==
    LET im1 == imgui_destroy_context(im)
        im2 == imgui_destroy_pool(im1, context_ok)
    IN  Ret(TRUE,
            [im2 EXCEPT !.g_initialized = FALSE],
            <<Call("ImGui_ImplVulkan_Shutdown", 0, 1),
              Call("ImGui_ImplWin32_Shutdown", 0, 1),
              Call("ImGui::DestroyContext", 0, 1)>>
              \o (IF im1.g_imgui_descriptor_pool # VK_NULL_HANDLE
                      /\ context_ok
                  THEN <<Call("vkDestroyDescriptorPool",
                              im1.g_imgui_descriptor_pool, 1)>>
                  ELSE <<>>))

\* Lines 165-190, for a call during which no other entry point runs.
imgui_system_shutdown(im, context_ok) ==
    IF ~im.g_initialized THEN Ret(TRUE, im, <<>>)
    ELSE LET r == imgui_shutdown_teardown(im, context_ok)
         IN  Ret(r.ret, r.st, imgui_shutdown_wait(context_ok) \o r.calls)

\* Lines 192-200.
imgui_system_begin_frame(im) ==
    IF ~im.g_initialized THEN Ret(TRUE, im, <<>>)
    ELSE Ret(TRUE, im, <<Call("ImGui_ImplVulkan_NewFrame", 0, 1),
                         Call("ImGui_ImplWin32_NewFrame", 0, 1),
                         Call("ImGui::NewFrame", 0, 1)>>)

\* Lines 202-208.
imgui_system_end_frame(im) ==
    IF ~im.g_initialized THEN Ret(TRUE, im, <<>>)
    ELSE Ret(TRUE, im, <<Call("ImGui::Render", 0, 1)>>)

\* The collaborators' answers to one imgui_system_initialize call; an
\* answer the call does not ask for is fixed.
NoPasses == [i \in PassSlots |-> "ui"]

NoImguiEnv == [context_ok |-> TRUE, hwnd_ok |-> TRUE, pool_ok |-> TRUE,
               passes |-> NoPasses, vulkan_init_ok |-> TRUE]

ImguiEnvs ==
    {env \in [context_ok : BOOLEAN, hwnd_ok : BOOLEAN, pool_ok : BOOLEAN,
              passes : [PassSlots -> PassKinds],
              vulkan_init_ok : BOOLEAN] :
        /\ (~env.context_ok => env.hwnd_ok)
        /\ (~(env.context_ok /\ env.hwnd_ok) => env.pool_ok)
        /\ (~(env.context_ok /\ env.hwnd_ok /\ env.pool_ok)
               => env.passes = NoPasses)
        /\ (~(env.context_ok /\ env.hwnd_ok /\ env.pool_ok
               /\ find_ui_renderpass(env.passes) # 0 - 1)
               => env.vulkan_init_ok)}

\* ------------------------------------------------------------ the actions
\* The record of the call that has just returned: the operation, its inputs
\* (the collaborators' answers included), its return value and the subsystem
\* as it was when the call was made.  The caller takes the result (Return)
\* before it makes the next call.
NoFaces == [i \in Faces |-> BaseFace]

NoEnv == [faces |-> NoFaces, alloc_null_on_zero |-> FALSE,
          unload_shader_ok |-> TRUE, create_ok |-> TRUE,
          map_ok |-> TRUE, shader_ok |-> TRUE, inst_ok |-> TRUE,
          destroy_mode |-> 0]

Op(op, ret, name, env, frame, fail) ==
    [op |-> op, ret |-> ret, name |-> name, env |-> env, frame |-> frame,
     fail |-> fail, pre_ptr |-> state_ptr, pre |-> state, pre_gpu |-> gpu]

NoOp == [op |-> "none", ret |-> TRUE, name |-> <<>>, env |-> NoEnv,
         frame |-> 0, fail |-> NoFailure, pre_ptr |-> FALSE,
         pre |-> ZeroState, pre_gpu |-> ZeroGpu]

\* The answers of the renderer and of the shader system to one load call
\* whose fetch succeeds; an answer the call never asks for is fixed (TRUE,
\* and mode 0 when every acquisition is granted).
AcquireOutcomes ==
    {e \in [unload_shader_ok : BOOLEAN, create_ok : BOOLEAN,
            map_ok : BOOLEAN, shader_ok : BOOLEAN, inst_ok : BOOLEAN,
            destroy_mode : DestroyModes] :
        /\ (~e.map_ok => e.shader_ok)
        /\ (~(e.map_ok /\ e.shader_ok) => e.inst_ok)
        /\ (e.map_ok /\ e.shader_ok /\ e.inst_ok => e.destroy_mode = 0)}

\* The face sets in which every face the fetch does not request is the
\* reference image.
ConsultedFaceSets ==
    {f \in FaceSets :
        LET cs == load_cubemap_faces(f, FALSE).calls
            asked == {cs[i].a : i \in 1 .. Len(cs)}
        IN  \A i \in Faces \ asked : f[i] = BaseFace}

\* The inputs of one load call: a name, the six faces and the answers of
\* the collaborators.  When the fetch fails the acquisitions are not
\* reached and their answers are fixed.  No image has a size of 0 bytes,
\* so the allocator's answer to such a request is fixed.
LoadInputs ==
    UNION {
      IF load_cubemap_faces(f, FALSE).ok
      THEN {[name |-> n,
             env |-> [faces |-> f, alloc_null_on_zero |-> FALSE,
                      unload_shader_ok |-> e.unload_shader_ok,
                      create_ok |-> e.create_ok, map_ok |-> e.map_ok,
                      shader_ok |-> e.shader_ok, inst_ok |-> e.inst_ok,
                      destroy_mode |-> e.destroy_mode]] :
                n \in Names, e \in AcquireOutcomes}
      ELSE {[name |-> n,
             env |-> [NoEnv EXCEPT !.faces = f, !.unload_shader_ok = l]] :
                n \in Names, l \in BOOLEAN}
      : f \in ConsultedFaceSets}

\* Line 150: the result of the fetch for each of these face sets.
load_cubemap_faces_of ==
    [f \in ConsultedFaceSets |-> load_cubemap_faces(f, FALSE)]

Idle == last_op.op = "none"

Init ==
    /\ state_ptr = FALSE
    /\ state = ZeroState
    /\ gpu = ZeroGpu
    /\ calls = <<>>
    /\ last_op = NoOp
    /\ drawn_frame = NoFrame
    /\ editor = ZeroEditor
    /\ imgui = ZeroImgui
    /\ shutdown_waiting = 0

\* initialize may be called whether or not the subsystem runs.  An input
\* the call does not look at is fixed; the ledger is followed up to MaxLive
\* cube geometries.
Initialize ==
    /\ Idle
    /\ drawn_frame = NoFrame
    /\ \E mem \in BOOLEAN, path \in ConfigPaths,
          shader_found \in BOOLEAN, cube_ok \in BOOLEAN :
         LET r == skybox_system_initialize(state_ptr, state, mem, path,
                                           shader_found, cube_ok)
         IN  /\ (~mem => shader_found)
             /\ (~(mem /\ shader_found) => cube_ok)
             /\ state_ptr' = r.sp
             /\ state' = r.st
             /\ calls' = r.calls
             /\ gpu' = Replay(gpu, r.calls)
             /\ gpu'.geom_live <= MaxLive
             /\ last_op' = Op("initialize", r.ret, <<>>, NoEnv, 0, NoFailure)
             /\ UNCHANGED <<drawn_frame, editor, imgui, shutdown_waiting>>

Shutdown ==
    /\ Idle
    /\ drawn_frame = NoFrame
    /\ \E lookup_ok \in BOOLEAN :
         LET r == skybox_system_shutdown(state_ptr, state, gpu, lookup_ok)
         IN  /\ (~skybox_system_is_loaded(state_ptr, state) => lookup_ok)
             /\ state_ptr' = r.sp
             /\ state' = r.st
             /\ calls' = r.calls
             /\ gpu' = Replay(gpu, r.calls)
             /\ last_op' = Op("shutdown", TRUE, <<>>,
                              [NoEnv EXCEPT !.unload_shader_ok = lookup_ok],
                              0, NoFailure)
             /\ UNCHANGED <<drawn_frame, editor, imgui, shutdown_waiting>>

Load ==
    /\ Idle
    /\ drawn_frame = NoFrame
    /\ \E in \in LoadInputs :
         /\ (~skybox_system_is_loaded(state_ptr, state)
                => in.env.unload_shader_ok)
         /\ (~state_ptr \/ state.shader_id = INVALID_ID
                => in.env = NoEnv)
         /\ \E r \in {load_with_faces(state_ptr, state, gpu, in.name,
                                     in.env,
                                     load_cubemap_faces_of[in.env.faces])} :
              /\ state' = r.st
              /\ calls' = r.calls
              /\ gpu' = Replay(gpu, r.calls)
              /\ gpu'.tex_live <= MaxLive
              /\ gpu'.map_live <= MaxLive
              /\ last_op' = Op("load", r.ret, in.name, in.env, 0, NoFailure)
              /\ UNCHANGED <<state_ptr, drawn_frame, editor, imgui,
                             shutdown_waiting>>

Unload ==
    /\ Idle
    /\ drawn_frame = NoFrame
    /\ \E lookup_ok \in BOOLEAN :
         LET r == skybox_system_unload(state_ptr, state, gpu, lookup_ok)
         IN  /\ (~skybox_system_is_loaded(state_ptr, state) => lookup_ok)
             /\ state' = r.st
             /\ calls' = r.calls
             /\ gpu' = Replay(gpu, r.calls)
             /\ last_op' = Op("unload", TRUE, <<>>,
                              [NoEnv EXCEPT !.unload_shader_ok = lookup_ok],
                              0, NoFailure)
             /\ UNCHANGED <<drawn_frame, editor, imgui, shutdown_waiting>>
             /\ UNCHANGED state_ptr

Render ==
    /\ Idle
    /\ \E frame \in Frames, fail \in {NoFailure} \cup RenderStages :
         LET r == skybox_system_render(state_ptr, state, frame, fail)
         IN  /\ (render_skips(state_ptr, state) => fail = NoFailure)
             /\ (render_skips(state_ptr, state)
                    \/ fail \in RenderStages \ {"apply_instance"}
                    => frame = U64_MAX - 1)
             /\ state' = r.st
             /\ calls' = r.calls
             /\ gpu' = Replay(gpu, r.calls)
             /\ last_op' = Op("render", TRUE, <<>>, NoEnv, frame, fail)
             /\ UNCHANGED <<state_ptr, drawn_frame, editor, imgui,
                            shutdown_waiting>>

\* What there is to remember of the call that has just returned.
Memory ==
    IF \E i \in 1 .. Len(calls) : calls[i].fn = "renderer_draw_geometry"
    THEN last_op.frame
    ELSE IF last_op.op = "load" /\ last_op.ret THEN JustLoaded
    ELSE NoFrame

\* The caller resumes: the record of the finished call is dropped.  A
\* caller that goes on to render keeps the frame number of a render that
\* drew, or that a skybox was just loaded; any other caller keeps nothing.
Return ==
    /\ ~Idle
    /\ last_op' = NoOp
    /\ drawn_frame' \in {Memory, NoFrame}
    /\ calls' = <<>>
    /\ UNCHANGED <<state_ptr, state, gpu, editor, imgui, shutdown_waiting>>

Next == Initialize \/ Shutdown \/ Load \/ Unload \/ Render \/ Return

Spec == Init /\ [][Next]_vars

\* ------------------------------------------- skybox_system_unload alone
\* skybox_system_unload applied to a state struct of any content: the fields
\* as a load commits them, the instance id and is_loaded drawn freely.  From
\* initialize a loaded skybox never has the sentinel as its instance id, so
\* the test of line 213 on the id is exercised here.
UnloadInstanceIds == {0, 1, INVALID_ID}

\* The result of a fetch of six reference images whose buffers are freed.
UnloadImage == Fetch(TRUE, <<>>, NoPixels, BaseImage.width,
                     BaseImage.height, BaseImage.channel_count)

UnloadInputs ==
    {[load_commit(
        load_acquire_map(
          load_upload(
            load_texture_metadata(
              [ZeroState EXCEPT !.shader_id = SkyboxShaderId,
                                !.cube_geometry = gm,
                                !.base_path = "../assets/skyboxes"],
              n, UnloadImage),
            UnloadImage, TRUE).st,
          TRUE).st,
        n, id)
      EXCEPT !.is_loaded = l, !.render_frame_number = f] :
        n \in Names, id \in UnloadInstanceIds, l \in BOOLEAN,
        gm \in {0, 1}, f \in Frames}

\* What the collaborators hold for a state struct.
LedgerOf(s) ==
    [ZeroGpu EXCEPT
       !.geom_live = s.cube_geometry,
       !.tex_live = s.cubemap_texture.internal_data,
       !.map_live = s.cubemap_map.internal_data,
       !.inst_live = IF s.is_loaded /\ s.shader_instance_id # INVALID_ID
                     THEN {s.shader_instance_id} ELSE {}]

InitUnload ==
    /\ state_ptr \in BOOLEAN
    /\ state \in UnloadInputs
    /\ gpu = LedgerOf(state)
    /\ calls = <<>>
    /\ last_op = NoOp
    /\ drawn_frame = NoFrame
    /\ editor = ZeroEditor
    /\ imgui = ZeroImgui
    /\ shutdown_waiting = 0

NextUnload == Unload \/ Return

SpecUnload == InitUnload /\ [][NextUnload]_vars

\* ------------------------------------------------ the editor's actions
\* The record of an editor call that has just returned.
EditorOp(op, ret, model, index, env, config) ==
    [op |-> op, ret |-> ret, model |-> model, index |-> index, env |-> env,
     config |-> config, pre |-> editor, pre_gpu |-> gpu]

EditorInitialize ==
    /\ Idle
    /\ \E config \in EditorConfigs :
         /\ (editor.initialized => config = NoConfig)
         /\ editor' = model_editor_initialize(editor, config)
         /\ last_op' = EditorOp("editor_initialize", TRUE, 0, 0, NoModelEnv,
                                config)
    /\ calls' = <<>>
    /\ UNCHANGED <<state_ptr, state, gpu, drawn_frame, imgui,
                   shutdown_waiting>>

EditorShutdown ==
    /\ Idle
    /\ editor' = model_editor_shutdown(editor)
    /\ calls' = <<>>
    /\ last_op' = EditorOp("editor_shutdown", TRUE, 0, 0, NoModelEnv,
                           NoConfig)
    /\ UNCHANGED <<state_ptr, state, gpu, drawn_frame, imgui,
                   shutdown_waiting>>

LoadModel ==
    /\ Idle
    /\ \E model \in ModelNames, env \in ModelEnvs :
         LET r == model_editor_load_model(editor, model, env)
         IN  /\ (r.calls = <<>> => env = NoModelEnv)
             /\ editor' = r.st
             /\ calls' = r.calls
             /\ last_op' = EditorOp("load_model", r.ret, model, 0, env,
                                    NoConfig)
             /\ UNCHANGED <<state_ptr, state, gpu, drawn_frame, imgui,
                   shutdown_waiting>>

UnloadModel ==
    /\ Idle
    /\ \E index \in 0 .. MaxMeshCount :
         LET r == model_editor_unload_model(editor, index)
         IN  /\ editor' = r.st
             /\ calls' = r.calls
             /\ last_op' = EditorOp("unload_model", r.ret, 0, index,
                                    NoModelEnv, NoConfig)
             /\ UNCHANGED <<state_ptr, state, gpu, drawn_frame, imgui,
                   shutdown_waiting>>

\* The panel is drawn by the initialized editor; it reads the mesh count
\* through the configured pointer (line 351).
SelectMesh ==
    /\ Idle
    /\ editor.initialized
    /\ editor.has_meshes
    /\ \E i \in MeshSlots :
         /\ i < editor.mesh_count
         /\ editor' = select_mesh(editor, i)
    /\ UNCHANGED <<state_ptr, state, gpu, calls, last_op, drawn_frame,
                   imgui, shutdown_waiting>>

NextEditor ==
    \/ EditorInitialize \/ EditorShutdown \/ LoadModel \/ UnloadModel
    \/ SelectMesh \/ Return

SpecEditor == Init /\ [][NextEditor]_vars

\* ------------------------------------------- the ImGui system's actions
\* The record of an ImGui system call that has just returned.
ImguiOp(op, ret, env) ==
    [op |-> op, ret |-> ret, env |-> env, pre |-> imgui]

ImguiInitialize ==
    /\ Idle
    /\ \E env \in ImguiEnvs :
         LET r == imgui_system_initialize(imgui, env)
         IN  /\ (r.calls = <<>> => env = NoImguiEnv)
             /\ r.st.contexts <= MaxImguiObjects
             /\ Cardinality(r.st.pools) <= MaxImguiObjects
             /\ imgui' = r.st
             /\ calls' = r.calls
             /\ last_op' = ImguiOp("imgui_initialize", r.ret, env)
    /\ UNCHANGED <<state_ptr, state, gpu, drawn_frame, editor,
                   shutdown_waiting>>

\* A shutdown call up to the point where it returns or blocks.  On an
\* initialized system with a Vulkan context it passes the test of line 166
\* and blocks in vkDeviceWaitIdle (line 172) with the statics untouched;
\* nothing in the sources keeps another entry point from running meanwhile.
\* Without a context it does not wait and tears down at once.
ImguiShutdown ==
    /\ Idle
    /\ \E context_ok \in BOOLEAN :
         /\ (~imgui.g_initialized => context_ok)
         /\ IF imgui.g_initialized /\ context_ok
            THEN /\ shutdown_waiting < MaxShutdownCalls
                 /\ shutdown_waiting' = shutdown_waiting + 1
                 /\ imgui' = imgui
                 /\ calls' = imgui_shutdown_wait(context_ok)
                 /\ last_op' = ImguiOp("imgui_shutdown_wait", TRUE,
                                       NoImguiEnv)
            ELSE LET r == imgui_system_shutdown(imgui, context_ok)
                 IN  /\ r.st.contexts >= 0 - MaxImguiObjects
                     /\ r.st.renderer >= 0 - MaxImguiObjects
                     /\ shutdown_waiting' = shutdown_waiting
                     /\ imgui' = r.st
                     /\ calls' = r.calls
                     /\ last_op' = ImguiOp("imgui_shutdown", r.ret,
                                           [NoImguiEnv EXCEPT
                                              !.context_ok = context_ok])
    /\ UNCHANGED <<state_ptr, state, gpu, drawn_frame, editor>>

\* The wait of a blocked shutdown call is over: it tears down what the
\* statics name now (lines 175-189) and returns.
ImguiShutdownResume ==
    /\ Idle
    /\ shutdown_waiting > 0
    /\ LET r == imgui_shutdown_teardown(imgui, TRUE)
       IN  /\ r.st.contexts >= 0 - MaxImguiObjects
           /\ r.st.renderer >= 0 - MaxImguiObjects
           /\ shutdown_waiting' = shutdown_waiting - 1
           /\ imgui' = r.st
           /\ calls' = r.calls
           /\ last_op' = ImguiOp("imgui_shutdown", r.ret, NoImguiEnv)
    /\ UNCHANGED <<state_ptr, state, gpu, drawn_frame, editor>>

ImguiBeginFrame ==
    /\ Idle
    /\ LET r == imgui_system_begin_frame(imgui)
       IN  /\ imgui' = r.st
           /\ calls' = r.calls
           /\ last_op' = ImguiOp("imgui_begin_frame", r.ret, NoImguiEnv)
    /\ UNCHANGED <<state_ptr, state, gpu, drawn_frame, editor,
                   shutdown_waiting>>

ImguiEndFrame ==
    /\ Idle
    /\ LET r == imgui_system_end_frame(imgui)
       IN  /\ imgui' = r.st
           /\ calls' = r.calls
           /\ last_op' = ImguiOp("imgui_end_frame", r.ret, NoImguiEnv)
    /\ UNCHANGED <<state_ptr, state, gpu, drawn_frame, editor,
                   shutdown_waiting>>

NextImgui ==
    \/ ImguiInitialize \/ ImguiShutdown \/ ImguiShutdownResume
    \/ ImguiBeginFrame \/ ImguiEndFrame \/ Return

SpecImgui == Init /\ [][NextImgui]_vars

\* ============================================================ properties
\* The ledger after the first k calls of the call that has just returned.
LedgerAt(k) == Replay(last_op.pre_gpu, SubSeq(calls, 1, k))

\* The positions of the calls of one collaborator function.
Idx(fn) == {i \in 1 .. Len(calls) : calls[i].fn = fn}

\* A load call that got past the two guards (lines 130-138).
LoadRan == /\ last_op.op = "load"
           /\ last_op.pre_ptr
           /\ last_op.pre.shader_id # INVALID_ID

Fetched == load_cubemap_faces(last_op.env.faces,
                             last_op.env.alloc_null_on_zero).ok

NowLoaded == skybox_system_is_loaded(state_ptr, state)
NowNames == skybox_system_get_current_name(state_ptr, state)

\* Every pixel buffer allocated during the call was freed later in the call.
AllPixelsFreed ==
    /\ \A i \in Idx("kallocate") :
          \E j \in Idx("kfree") : j > i /\ calls[j].a = calls[i].a
    /\ LedgerAt(Len(calls)).px_live = {}

\* ---------------------------------------------------------------- C1
\* C1: whenever skybox_system_load(name) returns true, is_loaded() is true
\* and the string read from get_current_name() equals name.
C1_LoadedNameIsArgument ==
    (last_op.op = "load" /\ last_op.ret)
        => /\ NowLoaded
           /\ \A r \in NowNames : r = last_op.name

\* ---------------------------------------------------------------- C2
\* C2: whenever skybox_system_load returns false, is_loaded() is false and
\* get_current_name() is the empty string, whatever was loaded before and
\* whatever stage failed.
C2_FailedLoadIsUnloaded ==
    (last_op.op = "load" /\ ~last_op.ret)
        => /\ ~NowLoaded
           /\ NowNames = {<<>>}

\* A load that replaced a loaded skybox and failed at the instance stage.
C2_Witness ==
    /\ LoadRan /\ ~last_op.ret
    /\ last_op.pre.is_loaded
    /\ Idx("renderer_shader_acquire_instance_resources") # {}

\* ---------------------------------------------------------------- C3
\* C3: at every point of every call the subsystem holds at most one live
\* cubemap texture, one live set of map resources and one shader instance.
C3_AtMostOneOfEach ==
    \A k \in 0 .. Len(calls) :
        LET g == LedgerAt(k)
        IN  /\ g.tex_live <= 1
            /\ g.map_live <= 1
            /\ Cardinality(g.inst_live) <= 1

\* ---------------------------------------------------------------- C4
AcquireFns == {"resource_system_load", "renderer_cubemap_create",
               "renderer_texture_map_acquire_resources",
               "renderer_shader_acquire_instance_resources"}

\* C4: when load(B) is called while A is loaded, the release of A's shader
\* instance, the release of A's map resources and the destruction of A's
\* texture all precede every image request and every acquisition made for B.
C4_OldReleasedBeforeNewAcquired ==
    (LoadRan /\ last_op.pre.is_loaded)
        => \A j \in 1 .. Len(calls) :
              calls[j].fn \in AcquireFns
                => /\ \E i \in Idx("renderer_shader_release_instance_resources") :
                         i < j /\ calls[i].a = last_op.pre.shader_instance_id
                   /\ \E i \in Idx("renderer_texture_map_release_resources") :
                         i < j
                   /\ \E i \in Idx("renderer_cubemap_destroy") : i < j

\* ---------------------------------------------------------------- C5
\* C5: for every k, if the image load of face k fails after faces 0..k-1
\* loaded, load returns false, is_loaded() is false, every buffer allocated
\* for faces 0..k-1 was freed and no cubemap texture is created.
C5_FaceFailureFreesBuffers ==
    \A k \in Faces :
        (LoadRan /\ \E i \in Idx("resource_system_load") :
                        calls[i].a = k /\ calls[i].b = 0)
            => /\ ~last_op.ret
               /\ ~NowLoaded
               /\ {calls[i].a : i \in Idx("kallocate")} = 0 .. (k - 1)
               /\ AllPixelsFreed
               /\ Idx("renderer_cubemap_create") = {}

\* Face 3 failed to load; faces 0-2 had been copied.
C5_Witness ==
    /\ LoadRan
    /\ \E i \in Idx("resource_system_load") : calls[i].a = 3 /\ calls[i].b = 0
    /\ Cardinality(Idx("kfree")) = 3

\* ---------------------------------------------------------------- C6
\* Some face 1..5 was handed out with another width or height than face 0.
SizeMismatch(faces) ==
    /\ faces[0].ok
    /\ \E i \in 1 .. (FACE_COUNT - 1) :
          /\ faces[i].ok
          /\ \/ faces[i].img.width # faces[0].img.width
             \/ faces[i].img.height # faces[0].img.height

\* C6: if some face 1..5 has a width or height different from face 0, load
\* returns false, renderer_cubemap_create is never invoked and every pixel
\* buffer allocated during the call was freed.
C6_SizeMismatchFails ==
    (last_op.op = "load" /\ SizeMismatch(last_op.env.faces))
        => /\ ~last_op.ret
           /\ Idx("renderer_cubemap_create") = {}
           /\ AllPixelsFreed

\* Face 4 is taller than face 0; faces 0-3 had been copied and were freed.
C6_Witness ==
    /\ LoadRan
    /\ last_op.env.faces[4].ok
    /\ last_op.env.faces[4].img.height # last_op.env.faces[0].img.height
    /\ last_op.env.faces[4].img.width = last_op.env.faces[0].img.width
    /\ Cardinality(Idx("kfree")) = 4

\* ---------------------------------------------------------------- C7
ChannelMismatch(faces) ==
    /\ \A i \in Faces : faces[i].ok
    /\ \A i \in Faces : /\ faces[i].img.width = faces[0].img.width
                        /\ faces[i].img.height = faces[0].img.height
    /\ \E i \in 1 .. (FACE_COUNT - 1) :
          faces[i].img.channel_count # faces[0].img.channel_count

\* C7: if some face 1..5 has a channel count different from face 0, load
\* fails and no cubemap texture is created.
C7_ChannelMismatchFails ==
    (LoadRan /\ ChannelMismatch(last_op.env.faces))
        => /\ ~last_op.ret
           /\ Idx("renderer_cubemap_create") = {}

\* ---------------------------------------------------------------- C8
\* The texture and the map resources were acquired, and then the shader
\* lookup or the instance acquisition of the load failed.
InstanceStageFailed ==
    /\ LoadRan
    /\ last_op.env.create_ok /\ last_op.env.map_ok
    /\ \/ ~last_op.env.shader_ok
       \/ \E i \in Idx("renderer_shader_acquire_instance_resources") :
             calls[i].b = 0
    /\ Fetched

\* C8: in that case the map resources are released and the texture is
\* destroyed, in the same call and after the failure, and load returns false.
C8_InstanceFailureRollsBack ==
    InstanceStageFailed
        => /\ ~last_op.ret
           /\ \E i \in Idx("renderer_texture_map_release_resources") :
                 /\ i > CHOOSE m \in Idx("renderer_texture_map_acquire_resources") : TRUE
                 /\ calls[i].a = 1
           /\ \E i \in Idx("renderer_cubemap_destroy") :
                 /\ i > CHOOSE m \in Idx("renderer_cubemap_create") : TRUE
                 /\ calls[i].a = 1
           /\ \A c \in Idx("renderer_cubemap_create") :
                 LedgerAt(Len(calls)).tex_live = LedgerAt(c - 1).tex_live
           /\ \A m \in Idx("renderer_texture_map_acquire_resources") :
                 LedgerAt(Len(calls)).map_live = LedgerAt(m - 1).map_live

\* The instance acquisition itself was refused.
C8_Witness ==
    /\ InstanceStageFailed
    /\ last_op.env.shader_ok
    /\ ~last_op.env.inst_ok

\* ---------------------------------------------------------------- C9
\* C9: if renderer_texture_map_acquire_resources fails during load, the
\* texture created in that call is destroyed before load returns false and
\* no shader instance is acquired in that call.
C9_MapFailureDestroysTexture ==
    (LoadRan /\ ~last_op.env.map_ok /\ Fetched)
        => /\ ~last_op.ret
           /\ \E i \in Idx("renderer_cubemap_destroy") :
                 /\ i > CHOOSE m \in Idx("renderer_texture_map_acquire_resources") : TRUE
                 /\ calls[i].a = B2N(last_op.env.create_ok)
           /\ \A c \in Idx("renderer_cubemap_create") :
                 LedgerAt(Len(calls)).tex_live = LedgerAt(c - 1).tex_live
           /\ Idx("renderer_cubemap_create") # {}
           /\ Idx("renderer_shader_acquire_instance_resources") = {}

C9_Witness ==
    /\ LoadRan /\ Fetched
    /\ last_op.env.create_ok
    /\ ~last_op.env.map_ok

\* ---------------------------------------------------------------- C10
\* C10: is_loaded is true only if, in the load call that set it, the image
\* fetch, the cubemap texture creation, the map acquisition and the
\* instance acquisition all succeeded.
C10_LoadedOnlyIfAllStagesSucceeded ==
    (last_op.op = "load" /\ NowLoaded)
        => /\ Fetched
           /\ last_op.env.create_ok
           /\ last_op.env.map_ok
           /\ last_op.env.shader_ok
           /\ last_op.env.inst_ok

\* ---------------------------------------------------------------- C11
\* C11: in every state between operations from initialize onward,
\* shader_instance_id differs from INVALID_ID if and only if is_loaded is
\* true.
C11_InstanceValidIffLoaded ==
    state_ptr => ((state.shader_instance_id # INVALID_ID) <=> state.is_loaded)

\* ---------------------------------------------------------------- C12
\* C12: an unload from the loaded state releases the shader instance, then
\* the map resources, then destroys the texture, and returns with the name
\* cleared and is_loaded false; in a load every release of the map
\* resources is followed at once by the destruction of the texture.
C12_ReleasedInReverseOrder ==
    /\ (last_op.op = "unload" /\ last_op.pre_ptr /\ last_op.pre.is_loaded)
          => /\ \E i \in Idx("renderer_shader_release_instance_resources"),
                   j \in Idx("renderer_texture_map_release_resources"),
                   k \in Idx("renderer_cubemap_destroy") :
                     /\ i < j /\ j < k
                     /\ calls[i].a = last_op.pre.shader_instance_id
             /\ ~NowLoaded
             /\ NowNames = {<<>>}
    /\ LoadRan
          => \A j \in Idx("renderer_texture_map_release_resources") :
                /\ j < Len(calls)
                /\ calls[j + 1].fn = "renderer_cubemap_destroy"

\* ---------------------------------------------------------------- C13
\* C13: an unload called when no skybox is loaded makes no renderer or
\* shader-system call and changes no state.
C13_UnloadWhenUnloadedIsNoOp ==
    (last_op.op = "unload"
         /\ ~skybox_system_is_loaded(last_op.pre_ptr, last_op.pre))
        => /\ calls = <<>>
           /\ state = last_op.pre
           /\ state_ptr = last_op.pre_ptr
           /\ gpu = last_op.pre_gpu

\* An unload of a running subsystem whose skybox an earlier unload released
\* (only unload stores INVALID_ID in shader_instance_id).
C13_Witness ==
    /\ last_op.op = "unload"
    /\ last_op.pre_ptr
    /\ ~last_op.pre.is_loaded
    /\ last_op.pre.shader_instance_id = INVALID_ID

\* ---------------------------------------------------------------- C14
\* C14: in every reachable state in which is_loaded() is false (before
\* initialize, after initialize, after unload, after a failed load, after
\* shutdown), get_current_name() reads the empty string.
C14_UnloadedNameIsEmpty ==
    ~NowLoaded => NowNames = {<<>>}

\* A running subsystem after the unload of a long name: the bytes behind
\* the cleared first byte are still in the buffer.
C14_Witness ==
    /\ state_ptr
    /\ ~state.is_loaded
    /\ state.current_name[1] = 0
    /\ state.current_name[2] # 0

\* A render call that got past the guard of line 240.
RenderRan == /\ last_op.op = "render"
             /\ ~render_skips(last_op.pre_ptr, last_op.pre)

\* ---------------------------------------------------------------- C15
\* C15: a render made when no skybox is loaded or the cube geometry handle
\* is absent makes no shader-system or renderer call, issues no draw call
\* and leaves all state, the stored frame number included, unchanged.
C15_RenderWithoutSkyboxIsNoOp ==
    (last_op.op = "render"
         /\ \/ ~skybox_system_is_loaded(last_op.pre_ptr, last_op.pre)
            \/ last_op.pre.cube_geometry = 0)
        => /\ calls = <<>>
           /\ state = last_op.pre
           /\ state.render_frame_number = last_op.pre.render_frame_number
           /\ state_ptr = last_op.pre_ptr
           /\ gpu = last_op.pre_gpu

\* A skybox is loaded but the cube geometry was never acquired, and the
\* render is asked for a frame number other than the stored one.
C15_Witness ==
    /\ last_op.op = "render"
    /\ last_op.pre_ptr
    /\ last_op.pre.is_loaded
    /\ last_op.pre.cube_geometry = 0
    /\ last_op.frame # last_op.pre.render_frame_number
    /\ last_op.fail = NoFailure

\* ---------------------------------------------------------------- C16
\* C16: if a stage of render fails (shader activation, shader lookup, global
\* bind, projection or view uniform set, instance apply), that render call
\* issues no draw call, is_loaded and current_name are unchanged, and the
\* skybox is still loaded and still holds its texture, its map resources
\* and its shader instance.
C16_FailedRenderDrawsNothing ==
    (RenderRan /\ last_op.fail \in RenderStages)
        => /\ Idx("renderer_draw_geometry") = {}
           /\ calls[Len(calls)].b = 0
           /\ state.is_loaded = last_op.pre.is_loaded
           /\ state.current_name = last_op.pre.current_name
           /\ NowLoaded
           /\ state.cubemap_texture = last_op.pre.cubemap_texture
           /\ state.cubemap_map = last_op.pre.cubemap_map
           /\ state.shader_instance_id = last_op.pre.shader_instance_id
           /\ gpu = last_op.pre_gpu

\* The instance apply, the last stage before the draw, was refused.
C16_Witness ==
    /\ RenderRan
    /\ last_op.fail = "apply_instance"
    /\ Len(calls) = 8

\* The needs_update argument of the instance apply of the render call that
\* has just returned.
ApplyArg ==
    calls[CHOOSE i \in Idx("shader_system_apply_instance") : TRUE].a

\* A render that got as far as the instance apply, made right after a
\* render that drew.
RenderAppliedAfterDraw ==
    /\ RenderRan
    /\ Idx("shader_system_apply_instance") # {}
    /\ drawn_frame >= 0

\* ---------------------------------------------------------------- C17
\* C17: with a skybox loaded, a render made right after a render that drew
\* with frame number N applies the shader instance with needs_update false
\* when it is given N again and with needs_update true when it is given
\* N+1.
C17_SameFrameSkipsUpload ==
    RenderAppliedAfterDraw
        => /\ (last_op.frame = drawn_frame => ApplyArg = 0)
           /\ (last_op.frame = (drawn_frame + 1) % U64Mod => ApplyArg = 1)

\* The second of two renders with the same frame number, one that the load
\* did not store (the load stores the largest value).
C17_Witness ==
    /\ RenderAppliedAfterDraw
    /\ last_op.frame = drawn_frame
    /\ last_op.frame # U64_MAX
    /\ last_op.fail = NoFailure

\* The names of the calls of the log, in order, the shader lookup left out.
RECURSIVE CallNames(_)
CallNames(cs) ==
    IF cs = <<>> THEN <<>>
    ELSE IF Head(cs).fn = "shader_system_get_by_id" THEN CallNames(Tail(cs))
    ELSE <<Head(cs).fn>> \o CallNames(Tail(cs))

\* ---------------------------------------------------------------- C18
\* C18: with a skybox loaded, the geometry present and every collaborator
\* call succeeding, one render call invokes, in this order: use shader, bind
\* globals, set the projection uniform, set the view uniform, apply
\* globals, bind the shader instance, apply the instance, and one
\* draw_geometry call for the cube geometry with the identity model
\* matrix; the frame number is stored.
C18_RenderCallOrder ==
    (RenderRan /\ last_op.fail = NoFailure)
        => /\ CallNames(calls) =
                <<"shader_system_use_by_id",
                  "renderer_shader_bind_globals",
                  "shader_system_uniform_set",
                  "shader_system_uniform_set",
                  "shader_system_apply_global",
                  "shader_system_bind_instance",
                  "shader_system_apply_instance",
                  "renderer_draw_geometry">>
           /\ \A i \in Idx("shader_system_uniform_set") :
                 calls[i].a = IF i + 1 \in Idx("shader_system_uniform_set")
                              THEN 1 ELSE 2
           /\ \A i \in Idx("shader_system_use_by_id") :
                 calls[i].a = last_op.pre.shader_id
           /\ \A i \in Idx("shader_system_bind_instance") :
                 calls[i].a = last_op.pre.shader_instance_id
           /\ \A i \in Idx("renderer_draw_geometry") :
                 /\ calls[i].a = last_op.pre.cube_geometry
                 /\ calls[i].b = 1
           /\ state.render_frame_number = last_op.frame

\* A complete render of a new frame.
C18_Witness ==
    /\ RenderRan
    /\ last_op.fail = NoFailure
    /\ last_op.frame # last_op.pre.render_frame_number
    /\ Len(calls) = 9

\* ---------------------------------------------------------------- C19
\* C19: between initialize and shutdown every cubemap texture created by
\* renderer_cubemap_create is destroyed by renderer_cubemap_destroy exactly
\* once: every destroy call is made on a texture that is live at that time,
\* and no texture is live when shutdown returns.
C19_TextureDestroyedExactlyOnce ==
    /\ \A i \in Idx("renderer_cubemap_destroy") : calls[i].a = 1
    /\ \A k \in 0 .. Len(calls) : LedgerAt(k).tex_live \in {0, 1}
    /\ last_op.op = "shutdown" => gpu.tex_live = 0

\* ---------------------------------------------------------------- C20
\* C20: after a load that fails at the map-acquisition, shader-lookup or
\* instance-acquisition stage, the cubemap_texture and cubemap_map fields
\* hold their zero values, as after initialize or unload.
C20_RollbackZeroesFields ==
    (LoadRan /\ Fetched /\ ~last_op.ret)
        => /\ state.cubemap_texture = ZeroTexture
           /\ state.cubemap_map = ZeroMap

\* ---------------------------------------------------------------- C21
\* C21: the cube geometry is acquired at most once, in initialize, and
\* released once, in shutdown: no load, unload or render call acquires,
\* releases or changes the geometry handle, whatever its outcome.
C21_GeometrySpansLifetime ==
    /\ last_op.op \in {"load", "unload", "render"}
          => /\ Idx("geometry_system_acquire_from_config") = {}
             /\ Idx("geometry_system_release") = {}
             /\ state.cube_geometry = last_op.pre.cube_geometry
             /\ gpu.geom_live = last_op.pre_gpu.geom_live
    /\ Cardinality(Idx("geometry_system_acquire_from_config")) <= 1
    /\ Idx("geometry_system_acquire_from_config") # {}
          => last_op.op = "initialize" /\ last_op.pre_gpu.geom_live = 0
    /\ Idx("geometry_system_release") # {} => last_op.op = "shutdown"
    /\ gpu.geom_live \in {0, 1}
    /\ gpu.geom_live = IF state_ptr THEN state.cube_geometry ELSE 0
    /\ last_op.op = "shutdown"
          => /\ Cardinality(Idx("geometry_system_release"))
                  = last_op.pre_gpu.geom_live
             /\ gpu.geom_live = 0

\* ---------------------------------------------------------------- C22
\* C22: skybox_system_shutdown releases the shader instance, the map
\* resources and the texture of a loaded skybox, and afterwards every field
\* of the skybox state struct is zero-valued.
C22_ShutdownZeroesState ==
    (last_op.op = "shutdown" /\ last_op.pre_ptr)
        => /\ last_op.pre.is_loaded
                => /\ Idx("renderer_texture_map_release_resources") # {}
                   /\ Idx("renderer_cubemap_destroy") # {}
           /\ state = ZeroState

\* ---------------------------------------------------------------- C23
\* C23: every image obtained from resource_system_load during the fetch is
\* handed back with resource_system_unload exactly once, before the next
\* face is requested and before the fetch returns, on the success path and
\* on the dimension-mismatch path alike; no image is retained after load
\* returns.
C23_ImagesHandedBack ==
    LoadRan
        => /\ \A i \in Idx("resource_system_load") :
                 calls[i].b = 1
                   => LET back == {j \in Idx("resource_system_unload") :
                                      calls[j].a = calls[i].a}
                      IN  /\ Cardinality(back) = 1
                          /\ \A j \in back :
                                /\ j > i
                                /\ \A m \in Idx("resource_system_load") :
                                      m > i => m > j
                                /\ \A m \in Idx("renderer_cubemap_create") :
                                      m > j
           /\ \A j \in Idx("resource_system_unload") :
                 \E i \in Idx("resource_system_load") :
                    i < j /\ calls[i].a = calls[j].a /\ calls[i].b = 1
           /\ gpu.img_live = {}

\* The dimension-mismatch path: the image of the face that did not match
\* was obtained and handed back.
C23_Witness ==
    /\ LoadRan
    /\ SizeMismatch(last_op.env.faces)
    /\ Cardinality(Idx("resource_system_unload"))
          = Cardinality(Idx("resource_system_load"))
    /\ Cardinality(Idx("resource_system_load")) > 1

\* ---------------------------------------------------------------- C24
\* C24: unload never calls renderer_shader_release_instance_resources with
\* INVALID_ID: when the stored shader_instance_id is INVALID_ID the instance
\* release is skipped, and the map resources and the cubemap texture are
\* still released and the skybox is unloaded.
C24_SentinelInstanceNotReleased ==
    /\ \A i \in Idx("renderer_shader_release_instance_resources") :
          calls[i].a # INVALID_ID
    /\ (last_op.op = "unload"
          /\ skybox_system_is_loaded(last_op.pre_ptr, last_op.pre)
          /\ last_op.pre.shader_instance_id = INVALID_ID)
          => /\ Idx("renderer_shader_release_instance_resources") = {}
             /\ \E j \in Idx("renderer_texture_map_release_resources"),
                   k \in Idx("renderer_cubemap_destroy") : j < k
             /\ gpu.tex_live = 0
             /\ gpu.map_live = 0
             /\ state.cubemap_map = ZeroMap
             /\ state.cubemap_texture = ZeroTexture
             /\ ~NowLoaded
             /\ NowNames = {<<>>}

\* An unload of a loaded skybox whose instance id is the sentinel, with the
\* shader found.
C24_Witness ==
    /\ last_op.op = "unload"
    /\ skybox_system_is_loaded(last_op.pre_ptr, last_op.pre)
    /\ last_op.pre.shader_instance_id = INVALID_ID
    /\ last_op.env.unload_shader_ok
    /\ Len(calls) = 3

\* ---------------------------------------------------------------- C25
\* The positions of the image requests made before position i.
RequestsBefore(i) == {j \in Idx("resource_system_load") : j < i}

\* C25: load requests the face images one at a time in the order right,
\* left, top, bottom, front, back, each under ../skyboxes/<name>/<face>;
\* face i+1 is requested only after face i loaded and passed the dimension
\* check, and no face is requested after the first failure.
C25_FacesRequestedInOrder ==
    LoadRan
        => /\ Cardinality(Idx("resource_system_load")) <= FACE_COUNT
           /\ \A i \in Idx("resource_system_load") :
                 LET n == Cardinality(RequestsBefore(i))
                 IN  /\ calls[i].a = n
                     /\ resource_name(last_op.name, calls[i].a) =
                          <<"../skyboxes/", last_op.name, "/",
                            <<"right", "left", "top", "bottom", "front",
                              "back">>[n + 1]>>
                     /\ \A j \in RequestsBefore(i) : calls[j].b = 1
                     /\ \A m \in 1 .. (n - 1) :
                           /\ last_op.env.faces[m].img.width
                                 = last_op.env.faces[0].img.width
                           /\ last_op.env.faces[m].img.height
                                 = last_op.env.faces[0].img.height
                     /\ n > 0 =>
                           \E k \in Idx("resource_system_unload") :
                              k < i /\ calls[k].a = n - 1

\* All six faces were requested, and the last one was refused.
C25_Witness ==
    /\ LoadRan
    /\ Cardinality(Idx("resource_system_load")) = FACE_COUNT
    /\ ~last_op.env.faces[FACE_COUNT - 1].ok

\* ---------------------------------------------------------------- C26
\* C26: a load called before initialize, after shutdown or after an
\* initialize that did not find the skybox shader returns false, makes no
\* call and changes no state; an initialize that does not find the shader
\* returns true and acquires no geometry, so render stays a no-op.
C26_LoadWithoutShaderRefused ==
    /\ (last_op.op = "load"
          /\ (~last_op.pre_ptr \/ last_op.pre.shader_id = INVALID_ID))
          => /\ ~last_op.ret
             /\ calls = <<>>
             /\ state = last_op.pre
             /\ state_ptr = last_op.pre_ptr
             /\ gpu = last_op.pre_gpu
    /\ (last_op.op = "initialize"
          /\ \E i \in Idx("shader_system_get_id") : calls[i].b = INVALID_ID)
          => /\ last_op.ret
             /\ Idx("geometry_system_acquire_from_config") = {}
             /\ state.cube_geometry = 0
             /\ state.shader_id = INVALID_ID
    /\ (state_ptr /\ state.shader_id = INVALID_ID)
          => /\ ~state.is_loaded
             /\ state.cube_geometry = 0
    /\ (last_op.op = "render"
          /\ (~last_op.pre_ptr \/ last_op.pre.shader_id = INVALID_ID))
          => calls = <<>>

\* A load on a running subsystem whose initialize did not find the shader.
C26_Witness ==
    /\ last_op.op = "load"
    /\ last_op.pre_ptr
    /\ last_op.pre.shader_id = INVALID_ID
    /\ ~last_op.ret

\* ---------------------------------------------------------------- C27
\* C27: after any sequence of model_editor_load_model and
\* model_editor_unload_model calls *mesh_count never exceeds
\* max_mesh_count: load_model called with *mesh_count >= max_mesh_count
\* returns false without loading a resource, acquiring a geometry or
\* changing the mesh array or the count.
C27_MeshCountWithinCapacity ==
    /\ editor.mesh_count <= MaxMeshCount
    /\ editor.initialized => editor.mesh_count <= editor.max_mesh_count
    /\ (last_op.op = "load_model"
          /\ last_op.pre.initialized
          /\ last_op.pre.mesh_count >= last_op.pre.max_mesh_count)
          => /\ ~last_op.ret
             /\ calls = <<>>
             /\ editor = last_op.pre

\* A load_model call made with the mesh array full.
C27_Witness ==
    /\ last_op.op = "load_model"
    /\ last_op.pre.initialized
    /\ last_op.pre.mesh_count = last_op.pre.max_mesh_count
    /\ last_op.pre.mesh_count = MaxMeshCount

\* ---------------------------------------------------------------- C28
\* C28: whenever unload is called in the loaded state, the shader instance
\* acquired by the corresponding load is released and shader_instance_id is
\* INVALID_ID afterwards, also when the shader lookup inside unload fails:
\* after unload returns the subsystem holds no shader instance.
C28_UnloadReleasesInstance ==
    (last_op.op = "unload"
         /\ skybox_system_is_loaded(last_op.pre_ptr, last_op.pre))
        => /\ \E i \in Idx("renderer_shader_release_instance_resources") :
                 calls[i].a = last_op.pre.shader_instance_id
           /\ state.shader_instance_id = INVALID_ID
           /\ last_op.pre.shader_instance_id \notin gpu.inst_live

\* ---------------------------------------------------------------- C29
\* The subsystem as a failed initialize leaves it: the shader was found and
\* the cube geometry was not created.  Only shutdown ends this condition.
AfterFailedInitialize(sp, s) ==
    sp /\ s.shader_id # INVALID_ID /\ s.cube_geometry = 0

\* C29: if skybox_system_initialize, called with a non-null state, returns
\* false, is_loaded() is false and every subsequent load returns false
\* until an initialize succeeds.
C29_FailedInitializeRefusesLoads ==
    /\ (last_op.op = "initialize" /\ ~last_op.ret)
          => /\ AfterFailedInitialize(state_ptr, state)
             /\ ~NowLoaded
    /\ (last_op.op = "load"
          /\ AfterFailedInitialize(last_op.pre_ptr, last_op.pre))
          => /\ ~last_op.ret
             /\ ~NowLoaded

\* ---------------------------------------------------------------- C30
\* C30: for every frame number f, a render(.., f) that reaches the
\* instance apply and is the first call after a successful load applies
\* the instance with needs_update true.
C30_FirstRenderUploads ==
    (RenderRan
         /\ drawn_frame = JustLoaded
         /\ Idx("shader_system_apply_instance") # {})
        => ApplyArg = 1

\* The instance apply of the render call that has just returned succeeded.
RenderApplied ==
    /\ RenderRan
    /\ \E i \in Idx("shader_system_apply_instance") : calls[i].b = 1

\* ---------------------------------------------------------------- C31
\* C31: while the subsystem runs, the stored frame number changes only in
\* a successful load, which resets it to 2^64-1, and in a render whose
\* instance apply succeeded, which sets it to the frame number of the
\* call; a render that aborts at any stage, an unload and a failed load
\* leave it unchanged, so that after a render that drew it is the frame
\* number of that render.
C31_FrameNumberChanges ==
    /\ (last_op.op = "load" /\ last_op.ret
           => state.render_frame_number = U64_MAX)
    /\ (RenderApplied => state.render_frame_number = last_op.frame)
    /\ ((last_op.op \in {"load", "unload", "render", "shutdown"}
             /\ ~(last_op.op = "load" /\ last_op.ret)
             /\ ~RenderApplied)
            => state.render_frame_number = last_op.pre.render_frame_number)
    /\ (drawn_frame >= 0 /\ Idle => state.render_frame_number = drawn_frame)
    /\ (drawn_frame = JustLoaded /\ Idle
           => state.render_frame_number = U64_MAX)

\* A render refused at the instance apply, asked for a frame number other
\* than the stored one, right after a render that drew.
C31_Witness ==
    /\ RenderRan
    /\ last_op.fail = "apply_instance"
    /\ drawn_frame >= 0
    /\ last_op.frame # last_op.pre.render_frame_number
    /\ state.render_frame_number = drawn_frame

\* ---------------------------------------------------------------- C32
\* C32: every face pixel buffer allocated by a load is freed exactly once
\* later in that call, with the byte size it was allocated with, on the
\* success path and on every failure path of the fetch; no buffer remains
\* allocated when load returns.
C32_BuffersFreedWithTheirSize ==
    last_op.op = "load"
        => /\ \A i \in Idx("kallocate") :
                LET frees == {j \in Idx("kfree") : calls[j].a = calls[i].a}
                IN  /\ Cardinality(frees) = 1
                    /\ \A j \in frees : j > i /\ calls[j].b = calls[i].b
           /\ gpu.px_live = {}

\* ---------------------------------------------------------------- C33
\* C33: every mesh resource that model_editor_load_model obtained from
\* resource_system_load is handed to resource_system_unload later in the
\* same call, whether the call returns true or false, and a load_model
\* that returns false leaves the mesh count unchanged.
C33_MeshResourceGivenBack ==
    last_op.op = "load_model"
        => /\ \A i \in Idx("resource_system_load") :
                calls[i].b = 1
                    => \E j \in Idx("resource_system_unload") :
                          j > i /\ calls[j].a = calls[i].a
           /\ (~last_op.ret => editor.mesh_count = last_op.pre.mesh_count)

\* ---------------------------------------------------------------- C34
\* C34: a successful model_editor_unload_model frees the geometries array
\* of the mesh exactly once, with the byte size with which
\* model_editor_load_model allocated it, also for a mesh of which some
\* but not all geometries could be acquired.
C34_ArrayFreedWithItsSize ==
    (last_op.op = "unload_model" /\ last_op.ret)
        => LET m == last_op.pre.meshes[last_op.index]
           IN  /\ Cardinality(Idx("kfree")) = 1
               /\ \A i \in Idx("kfree") : calls[i].b = m.alloc

\* ---------------------------------------------------------------- C35
\* C35: in the initialized editor, after any sequence of mesh selections,
\* load_model and unload_model calls, editing_mesh_index is -1 or less
\* than the mesh count.  A successful unload_model(index) removes exactly
\* the mesh at index and keeps the order of the others; the selection
\* becomes -1 if it was index and otherwise designates the same mesh as
\* before (one less when it was greater than index).  unload_model with
\* index >= mesh count returns false and changes nothing.
C35_SelectionFollowsMeshes ==
    LET pre == last_op.pre
        index == last_op.index
        old == pre.editing_mesh_index
        new == editor.editing_mesh_index
    IN  /\ (editor.initialized
               => new = 0 - 1 \/ (new >= 0 /\ new < editor.mesh_count))
        /\ ((last_op.op = "unload_model" /\ last_op.ret)
               => /\ editor.mesh_count = pre.mesh_count - 1
                  /\ \A i \in MeshSlots :
                        i < editor.mesh_count
                            => editor.meshes[i] =
                                  pre.meshes[IF i < index THEN i ELSE i + 1]
                  /\ (old = index => new = 0 - 1)
                  /\ (old > index => new = old - 1)
                  /\ (old < index => new = old)
                  /\ ((old # index /\ old >= 0)
                         => editor.meshes[new] = pre.meshes[old]))
        /\ ((last_op.op = "unload_model" /\ pre.initialized
                 /\ index >= pre.mesh_count)
               => /\ ~last_op.ret
                  /\ editor = pre
                  /\ calls = <<>>)

\* The first of three different meshes is removed while the third one is
\* selected: the two others keep their order.
C35_Witness ==
    /\ last_op.op = "unload_model"
    /\ last_op.ret
    /\ last_op.index = 0
    /\ last_op.pre.mesh_count = 3
    /\ last_op.pre.editing_mesh_index = 2
    /\ last_op.pre.meshes[0] # last_op.pre.meshes[1]
    /\ last_op.pre.meshes[0] # last_op.pre.meshes[2]
    /\ last_op.pre.meshes[1] # last_op.pre.meshes[2]
    /\ editor.mesh_count = 2
    /\ editor.editing_mesh_index = 1
    /\ editor.meshes[0] = last_op.pre.meshes[1]
    /\ editor.meshes[1] = last_op.pre.meshes[2]

\* ---------------------------------------------------------------- C36
\* C36: an imgui_system_initialize that returns false leaves allocated
\* nothing that it created; in every state the descriptor pool static is
\* non-null only if the system is initialized, an ImGui context and a
\* platform backend exist only if the system is initialized, there is at
\* most one of each, and no pool is alive other than the one the static
\* names.
C36_FailedInitializeLeavesNothing ==
    /\ ((last_op.op = "imgui_initialize" /\ ~last_op.ret)
           => /\ imgui.pools = last_op.pre.pools
              /\ imgui.contexts = last_op.pre.contexts
              /\ imgui.platform = last_op.pre.platform
              /\ imgui.renderer = last_op.pre.renderer)
    /\ (imgui.g_imgui_descriptor_pool # VK_NULL_HANDLE
           => imgui.g_initialized)
    /\ (imgui.contexts > 0 => imgui.g_initialized)
    /\ (imgui.platform > 0 => imgui.g_initialized)
    /\ imgui.contexts <= 1
    /\ imgui.platform <= 1
    /\ imgui.pools \subseteq {imgui.g_imgui_descriptor_pool}

====
